---- MODULE Spec2Model ----
(***************************************************************************)
(* LongitudinalSuperSonic: discrete-time linear longitudinal model of a    *)
(* supersonic aircraft (model.py).  Floating-point values are modelled in  *)
(* fixed point: inputs, states and outputs are integers counting tenths of *)
(* their unit, matrices are integers counting 1/10000, the sample period   *)
(* counts hundredths of a second.  Python's 0-based index i is i+1 here.   *)
(***************************************************************************)
EXTENDS Integers, Sequences, FiniteSets, TLC

\* Largest horizon (number_time_steps) a constructed engine is given.
MaxSteps == 2

\* Sample periods tried, in hundredths of a second (0.01 is the default).
DtSet == {1, 2}

\* Commanded elevator inputs tried, in tenths of a degree: -1000, 24.5, 1000.
Commands == {-10000, 245, 10000}

\* Initial state vectors tried (u, w, q, theta), in tenths.
InitialStates == {<<100, 10, -5, 20>>}

\* selected_state_output values tried; <<>> stands for None.
Selections == {<<>>, <<"theta", "u">>}

\* Channel names the accessors are called with.
StateArgs == {"q", "wz", "wx", "wy", "zz"}
ControlArgs == {"ele", "stab", "rud", "dir", "zz"}
OutputArgs == {"alpha", "zz"}

VARIABLES
    number_time_steps,      \* horizon N
    discretisation_time,    \* dt, hundredths of a second
    selected_state_output,  \* names selected at construction, <<>> for None
    selected_state_index,   \* their indices in list_state
    filt_A, filt_B, filt_C, filt_D,  \* discretised matrices
    x0,                     \* initial state
    xt,                     \* current state
    xt1,                    \* next state computed by the last run_step
    time_step,              \* step counter k
    store_states,           \* number_states rows of N+1 entries
    store_input,            \* number_inputs rows of N entries
    store_outputs,          \* number_outputs rows of N entries
    output_history,         \* dictionary built by get_output, <<>> before
    ret                     \* the last call and what it returned or raised

config == <<number_time_steps, discretisation_time, selected_state_output,
            selected_state_index, filt_A, filt_B, filt_C, filt_D, x0>>
histories == <<store_states, store_input, store_outputs>>
vars == <<config, xt, xt1, time_step, histories, output_history, ret>>

----------------------------------------------------------------------------
\* Arithmetic helpers (numpy / builtins)

Fixed(v) == v * 10

Min(a, b) == IF b < a THEN b ELSE a
Max(a, b) == IF b > a THEN b ELSE a

RECURSIVE Dot(_, _)
Dot(r, v) == IF Len(r) = 0 THEN 0 ELSE r[1] * v[1] + Dot(Tail(r), Tail(v))

\* np.matmul of a matrix (1/10000) with a column vector; the product keeps
\* the matrix scale.
matmul(M, v) == [i \in 1..Len(M) |-> Dot(M[i], v)]

VecAdd(a, b) == [i \in 1..Len(a) |-> a[i] + b[i]]

\* Back from the matrix scale to tenths.
Unscale(v) == [i \in 1..Len(v) |-> v[i] \div 10000]

\* A buffer allocated one column too long.
zeros_extra(rows, cols) == [i \in 1..rows |-> [j \in 1..(cols + 1) |-> 0]]

\* np.zeros((rows, cols))
zeros(rows, cols) == [i \in 1..rows |-> [j \in 1..cols |-> 0]]

\* An assignment that fills every column up to k:  M[:, :k+1] = v
SetColumn_upto(M, k, v) ==
    [i \in 1..Len(M) |-> [j \in 1..Len(M[i]) |-> IF j <= k + 1 THEN v[i] ELSE M[i][j]]]

\* M[:, k] = v  (k is 0-based)
SetColumn(M, k, v) == [i \in 1..Len(M) |-> [M[i] EXCEPT ![k + 1] = v[i]]]

\* M[:, k]
Column(M, k) == [i \in 1..Len(M) |-> M[i][k + 1]]

\* s[:m] with Python's slice semantics (negative m counts from the end)
SliceTo(s, m) ==
    IF m >= 0 THEN SubSeq(s, 1, Min(m, Len(s)))
    ELSE SubSeq(s, 1, Max(Len(s) + m, 0))

\* list.index(val), 1-based; 0 when val is absent
RECURSIVE IndexFrom(_, _, _)
IndexFrom(list, val, i) ==
    IF i > Len(list) THEN 0
    ELSE IF list[i] = val THEN i ELSE IndexFrom(list, val, i + 1)
index(list, val) == IndexFrom(list, val, 1)

InList(list, val) == \E i \in 1..Len(list) : list[i] = val

\* np.rad2deg / np.deg2rad, elementwise (180/pi taken as 57.30)
rad2deg(s) == [i \in 1..Len(s) |-> (s[i] * 5730) \div 100]
deg2rad(s) == [i \in 1..Len(s) |-> (s[i] * 100) \div 5730]

----------------------------------------------------------------------------
\* __init__: channel lists and actuator limits

selected_states == <<"u", "w", "q", "theta">>
selected_output == <<"q", "theta", "alpha", "u", "a_zcg", "a_zp", "gamma">>
list_state == selected_states
selected_input == <<"ele">>

input_magnitude_limits == <<25>>
input_rate_limits == <<60>>

number_inputs == Len(selected_input)
number_outputs == Len(selected_output)
number_states == Len(selected_states)

\* import_linear_system: continuous matrices, in 1/10000
A == << <<-110, 433, 17295, -71876>>,
        <<-691, -6975, -70678, -548916>>,
        <<1, 12, -3541, 911>>,
        <<0, 0, 10000, 0>> >>

B == << <<-4412>>, <<-123880>>, <<-5845>>, <<0>> >>

C == << <<0, 0, 10000, 0>>,
        <<0, 0, 0, 10000>>,
        <<-30, 122, 0, 10000>>,
        <<9715, 2372, 0, 0>>,
        <<-687, -6975, -71280, -534050>>,
        <<-647, -7485, 82870, -573700>>,
        <<30, -122, 0, 0>> >>

D == << <<0>>, <<0>>, <<0>>, <<0>>, <<-124200>>, <<-128700>>, <<0>> >>

----------------------------------------------------------------------------
\* cont2discrete (zero-order hold): the exponential of dt * [[A, B], [0, 0]],
\* taken here as its series up to the second-order term, split into blocks.

em == [i \in 1..(number_states + number_inputs) |->
         IF i <= number_states THEN A[i] \o B[i]
         ELSE [j \in 1..(number_states + number_inputs) |-> 0]]

MatScale(M, dt) == [i \in 1..Len(M) |-> [j \in 1..Len(M[i]) |-> (M[i][j] * dt) \div 100]]

MatMul(P, Q) ==
    [i \in 1..Len(P) |-> [j \in 1..Len(Q[1]) |->
        Dot(P[i], [k \in 1..Len(Q) |-> Q[k][j]]) \div 10000]]

expm(M) ==
    [i \in 1..Len(M) |-> [j \in 1..Len(M) |->
        (IF i = j THEN 10000 ELSE 0) + M[i][j] + (MatMul(M, M)[i][j] \div 2)]]

cont2discrete(dt) ==
    LET ms == expm(MatScale(em, dt))
    IN  [ad |-> [i \in 1..number_states |-> SubSeq(ms[i], 1, number_states)],
         bd |-> [i \in 1..number_states |->
                    SubSeq(ms[i], number_states + 1, number_states + number_inputs)],
         cd |-> C,
         dd |-> D]

----------------------------------------------------------------------------
\* __init__ and initialise_system: the engine right after construction

NoCall == [op |-> "none", status |-> "ok", cmd |-> 0, name |-> "",
           to_deg |-> FALSE, to_rad |-> FALSE, val |-> <<>>]

initialise_system(x, n, sel, dt) ==
    /\ number_time_steps = n
    /\ time_step = 0
    /\ discretisation_time = dt
    /\ selected_state_output = sel
    /\ selected_state_index = [j \in 1..Len(sel) |-> index(list_state, sel[j])]
    /\ filt_A = cont2discrete(dt).ad
    /\ filt_B = cont2discrete(dt).bd
    /\ filt_C = cont2discrete(dt).cd
    /\ filt_D = cont2discrete(dt).dd
    /\ x0 = x
    /\ xt = x
    /\ xt1 = <<>>
    /\ store_states = SetColumn(zeros(number_states, n + 1), 0, x)
    /\ store_input = zeros(number_inputs, n)
    /\ store_outputs = zeros(number_outputs, n)
    /\ output_history = <<>>
    /\ ret = NoCall

Init ==
    \E x \in InitialStates, n \in 1..MaxSteps, sel \in Selections, dt \in DtSet :
        initialise_system(x, n, sel, dt)

----------------------------------------------------------------------------
\* run_step

\* The band half-width rate_limit * dt of channel i, in tenths of a degree.
RateStep(i) == (Fixed(input_rate_limits[i]) * discretisation_time) \div 100

\* A limiter that forgets the rate band.
limit_norate(ut_0, ut_1, i) ==
    Max(Min(ut_0[i], Fixed(input_magnitude_limits[i])),
        -Fixed(input_magnitude_limits[i]))

\* A limiter that forgets the magnitude bound.
limit_nomag(ut_0, ut_1, i) ==
    Max(Min(ut_0[i], ut_1[i] + RateStep(i)), ut_1[i] - RateStep(i))

\* A limiter that applies the magnitude bound before the rate band.
limit_magfirst(ut_0, ut_1, i) ==
    Max(Min(Max(Min(ut_0[i], Fixed(input_magnitude_limits[i])),
                -Fixed(input_magnitude_limits[i])),
            ut_1[i] + RateStep(i)),
        ut_1[i] - RateStep(i))

\* The nested max(min(max(min(...)))) of run_step for channel i.
limit(ut_0, ut_1, i) ==
    Max(Min(Max(Min(ut_0[i], ut_1[i] + RateStep(i)),
                ut_1[i] - RateStep(i)),
            Fixed(input_magnitude_limits[i])),
        -Fixed(input_magnitude_limits[i]))

\* A step that hands back the full vector whatever was selected.
step_result_full(x) == x

\* The value run_step hands back once the step is recorded.
step_result(x) ==
    IF selected_state_output # <<>>
    THEN [j \in 1..Len(selected_state_index) |-> x[selected_state_index[j]]]
    ELSE x

\* A state update that drops the input term.
next_state_noinput(x, u) == Unscale(matmul(filt_A, x))

\* filt_A . xt + filt_B . ut
next_state(x, u) == Unscale(VecAdd(matmul(filt_A, x), matmul(filt_B, u)))

\* An output taken from the state the step leads to.
output_of_next(x, u) ==
    Unscale(VecAdd(matmul(filt_C, next_state(x, u)), matmul(filt_D, u)))

\* filt_C . xt + filt_D . ut
output_of(x, u) == Unscale(VecAdd(matmul(filt_C, x), matmul(filt_D, u)))

\* An update that advances the counter by two.
update_skip ==
    /\ xt' = xt1'
    /\ time_step' = time_step + 2

\* An update that advances the counter and keeps the old current state.
update_keep_xt ==
    /\ xt' = xt
    /\ time_step' = time_step + 1

\* self.xt = self.xt1; self.time_step += 1
update_system_attributes ==
    /\ xt' = xt1'
    /\ time_step' = time_step + 1

run_step(ut_0) ==
    LET ut_1 == IF time_step # 0 THEN Column(store_input, time_step - 1) ELSE ut_0
        ut == [i \in 1..number_inputs |-> limit(ut_0, ut_1, i)]
        next == next_state(xt, ut)
        output == output_of(xt, ut)
        call == [NoCall EXCEPT !.op = "run_step", !.cmd = ut_0[1]]
    IN  /\ xt1' = next
        /\ IF time_step < Len(store_input[1])
           THEN /\ store_input' = SetColumn(store_input, time_step, ut)
                /\ store_outputs' = SetColumn(store_outputs, time_step, output)
                /\ store_states' = SetColumn(store_states, time_step + 1, next)
                /\ update_system_attributes
                /\ ret' = [call EXCEPT !.val = step_result(next)]
           ELSE \* the write to store_input[:, time_step] is out of bounds
                /\ ret' = [call EXCEPT !.status = "error"]
                /\ UNCHANGED <<xt, time_step, histories>>
        /\ UNCHANGED <<config, output_history>>

RunStep == \E c \in Commands : run_step(<<c>>)

----------------------------------------------------------------------------
\* Accessors.  Each leaves in ret the name and flags it was called with and
\* either the sequence it returned or the fact that it raised.

Returned(op, name, to_deg, to_rad, seq) ==
    [NoCall EXCEPT !.op = op, !.name = name, !.to_deg = to_deg,
                   !.to_rad = to_rad, !.val = seq]

Raised(op, name, to_deg, to_rad) ==
    [NoCall EXCEPT !.op = op, !.name = name, !.to_deg = to_deg,
                   !.to_rad = to_rad, !.status = "error"]

\* A renaming that takes 'wx' for the pitch rate as well.
state_alias_wx(state_name) ==
    IF state_name \in {"wz", "wx"} THEN "q"
    ELSE IF state_name = "wy" THEN "r" ELSE state_name

\* A renaming that does not know 'wz'.
state_alias_nowz(state_name) ==
    IF state_name = "wx" THEN "p"
    ELSE IF state_name = "wy" THEN "r" ELSE state_name

\* The renaming at the head of get_state.
state_alias(state_name) ==
    LET n1 == IF state_name = "wz" THEN "q" ELSE state_name
        n2 == IF n1 = "wx" THEN "p" ELSE n1
    IN  IF n2 = "wy" THEN "r" ELSE n2

get_state(state_name, to_deg, to_rad) ==
    LET name == state_alias(state_name)
        idx == index(selected_states, name)
    IN  /\ ret' = IF ~InList(selected_states, name)
                  THEN Raised("get_state", state_name, to_deg, to_rad)
                  ELSE Returned("get_state", state_name, to_deg, to_rad,
                         IF to_deg
                         THEN rad2deg(SliceTo(store_states[idx], number_time_steps - 1))
                         ELSE IF to_rad
                         THEN deg2rad(SliceTo(store_states[idx], number_time_steps - 1))
                         ELSE SliceTo(store_states[idx], number_time_steps - 1))
        /\ UNCHANGED <<config, xt, xt1, time_step, histories, output_history>>

\* The renaming at the head of get_control.
control_alias(control_name) ==
    LET n1 == IF control_name \in {"stab", "ele"} THEN "ele" ELSE control_name
    IN  IF n1 \in {"rud", "dir"} THEN "rud" ELSE n1

get_control(control_name, to_deg, to_rad) ==
    LET name == control_alias(control_name)
        idx == index(selected_input, name)
    IN  /\ ret' = IF ~InList(selected_input, name) \/ name \notin {"ele", "ail", "rud"}
                  THEN Raised("get_control", control_name, to_deg, to_rad)
                  ELSE Returned("get_control", control_name, to_deg, to_rad,
                         IF to_deg
                         THEN SliceTo(rad2deg(store_input[idx]), number_time_steps - 1)
                         ELSE IF to_rad
                         THEN deg2rad(SliceTo(store_states[idx], number_time_steps - 1))
                         ELSE SliceTo(store_input[idx], number_time_steps - 1))
        /\ UNCHANGED <<config, xt, xt1, time_step, histories, output_history>>

\* output2dict(y, names): a dictionary from each name to (a view of) its row
\* of y, kept here as the row's number.
output2dict(y, names) ==
    [n \in {names[i] : i \in 1..Len(names)} |-> index(names, n)]

\* self.state_history as the base class leaves it: an empty list, which no
\* channel name subscripts.
state_history == <<>>

get_output(state_name, to_deg, to_rad) ==
    LET dict == output2dict(store_outputs, selected_output)
    IN  /\ output_history' = dict
        /\ ret' = IF to_deg \/ to_rad
                  THEN IF state_name \in DOMAIN state_history
                       THEN Returned("get_output", state_name, to_deg, to_rad,
                              IF to_deg
                              THEN rad2deg(SliceTo(state_history[state_name], time_step - 1))
                              ELSE deg2rad(SliceTo(state_history[state_name], time_step - 1)))
                       ELSE Raised("get_output", state_name, to_deg, to_rad)
                  ELSE IF state_name \in DOMAIN dict
                       THEN Returned("get_output", state_name, to_deg, to_rad,
                              SliceTo(store_outputs[dict[state_name]], time_step - 1))
                       ELSE Raised("get_output", state_name, to_deg, to_rad)
        /\ UNCHANGED <<config, xt, xt1, time_step, histories>>

GetState == \E n \in StateArgs, to_deg \in BOOLEAN, to_rad \in BOOLEAN :
                get_state(n, to_deg, to_rad)

GetControl == \E n \in ControlArgs, to_deg \in BOOLEAN, to_rad \in BOOLEAN :
                get_control(n, to_deg, to_rad)

GetOutput == \E n \in OutputArgs, to_deg \in BOOLEAN, to_rad \in BOOLEAN :
                get_output(n, to_deg, to_rad)

Next == RunStep \/ GetState \/ GetControl \/ GetOutput

Spec == Init /\ [][Next]_vars

----------------------------------------------------------------------------
\* Properties

\* C1: a run_step made when the step counter already equals the horizon
\* fails, and the state, input and output histories are what they were.
C1_HorizonEnforced ==
    [][(time_step = number_time_steps /\ ret'.op = "run_step")
          => (ret'.status = "error" /\ UNCHANGED histories)]_vars

C1_Witness ==
    /\ time_step = number_time_steps
    /\ ret.op = "run_step"
    /\ ret.status = "error"

\* C2: for every recorded step k > 0 the applied inputs of steps k-1 and k
\* differ by at most rate_limit * dt (60 * dt, here in tenths of a degree).
C2_RateLimit ==
    \A i \in 1..Len(store_input) : \A k \in 1..(time_step - 1) :
        LET d == store_input[i][k + 1] - store_input[i][k]
        IN  /\ d <= (600 * discretisation_time) \div 100
            /\ -d <= (600 * discretisation_time) \div 100

\* A step after the first whose command jumped out of the band and was
\* held at the band's edge.
C2_Witness ==
    /\ time_step >= 2
    /\ ret.op = "run_step"
    /\ ret.status = "ok"
    /\ ret.cmd - store_input[1][time_step - 1] > (600 * discretisation_time) \div 100
    /\ store_input[1][time_step] - store_input[1][time_step - 1]
         = (600 * discretisation_time) \div 100

\* C3: every applied input recorded so far, that of step 0 included, is at
\* most 25 in absolute value.
C3_MagnitudeLimit ==
    \A i \in 1..Len(store_input) : \A k \in 1..time_step :
        /\ store_input[i][k] <= 250
        /\ store_input[i][k] >= -250

\* 1000 commanded after a step recorded at 25: the band would allow more
\* than 25, the bound does not.
C3_Witness ==
    /\ time_step = 2
    /\ ret.op = "run_step"
    /\ ret.status = "ok"
    /\ ret.cmd = 10000
    /\ store_input[1][1] = 250
    /\ store_input[1][2] = 250

\* C4 as stated: a command of 1000 on any step is recorded as exactly 25.
C4_Original ==
    (ret.op = "run_step" /\ ret.status = "ok" /\ ret.cmd = 10000)
        => store_input[1][time_step] = 250

\* C4 amended: a command of 1000 is recorded as exactly 25 at step 0, and at
\* a later step as the smaller of 25 and the previous applied input plus
\* rate_limit * dt; it is never recorded as 1000.
C4_Clamped1000 ==
    (ret.op = "run_step" /\ ret.status = "ok" /\ ret.cmd = 10000)
        => /\ store_input[1][time_step] # 10000
           /\ store_input[1][time_step] =
                IF time_step = 1 THEN 250
                ELSE LET banded == store_input[1][time_step - 1]
                                     + (600 * discretisation_time) \div 100
                     IN  IF banded < 250 THEN banded ELSE 250

\* 1000 commanded after a step held at -25: the rate band decides.
C4_Witness ==
    /\ time_step = 2
    /\ ret.op = "run_step"
    /\ ret.status = "ok"
    /\ ret.cmd = 10000
    /\ store_input[1][1] = -250
    /\ store_input[1][2] < 250

\* C5: after N successful steps the state history holds N+1 entries and the
\* input and output histories hold N entries each.
C5_HistoryLengths ==
    time_step = number_time_steps
        => /\ \A i \in 1..Len(store_states) : Len(store_states[i]) = number_time_steps + 1
           /\ \A i \in 1..Len(store_input) : Len(store_input[i]) = number_time_steps
           /\ \A i \in 1..Len(store_outputs) : Len(store_outputs[i]) = number_time_steps
           /\ Len(store_states) = 4 /\ Len(store_input) = 1 /\ Len(store_outputs) = 7

C5_Witness ==
    /\ time_step = number_time_steps
    /\ number_time_steps = 2
    /\ ret.op = "run_step"
    /\ ret.status = "ok"

\* C6 as stated: after k successful steps an accessor returns the populated
\* prefix of the requested history: the k+1 recorded states, or the k
\* recorded inputs or outputs, and no entry that was only pre-allocated.
C6_PopulatedPrefix ==
    (ret.op \in {"get_state", "get_control", "get_output"} /\ ret.status = "ok")
        => LET row == CASE ret.name \in {"q", "wz"} -> 3
                        [] ret.name \in {"ele", "stab"} -> 1
                        [] ret.name = "alpha" -> 3
                        [] OTHER -> 1
               populated ==
                   CASE ret.op = "get_state" -> SubSeq(store_states[row], 1, time_step + 1)
                     [] ret.op = "get_control" -> SubSeq(store_input[row], 1, time_step)
                     [] OTHER -> SubSeq(store_outputs[row], 1, time_step)
           IN  /\ Len(ret.val) = Len(populated)
               /\ (~ret.to_deg /\ ~ret.to_rad) => ret.val = populated

\* C7 as stated: an accessor called with both conversion flags set fails.
C7_ConflictingUnits ==
    (ret.op \in {"get_state", "get_control", "get_output"} /\ ret.to_deg /\ ret.to_rad)
        => ret.status = "error"

\* C8: an accessor called with a channel name outside the recognized set of
\* its history kind fails, and the histories, the current state and the step
\* counter are what they were.
C8_UnknownChannel ==
    [][(\/ ret'.op = "get_state" /\ ret'.name \notin {"u", "w", "q", "theta", "wz"}
        \/ ret'.op = "get_control" /\ ret'.name \notin {"ele", "stab"}
        \/ ret'.op = "get_output"
             /\ ret'.name \notin {"q", "theta", "alpha", "u", "a_zcg", "a_zp", "gamma"})
          => (ret'.status = "error" /\ UNCHANGED <<histories, xt, time_step>>)]_vars

\* An unknown state name refused after a step was recorded.
C8_Witness ==
    /\ time_step >= 1
    /\ ret.op = "get_state"
    /\ ret.name = "zz"
    /\ ret.status = "error"

\* C9 as stated: the sequence an accessor returns under a conversion flag is
\* the conversion of the very sequence it returns for that name without one.
C9_SelectionIndependent ==
    (/\ ret.op \in {"get_state", "get_control", "get_output"}
     /\ ret.status = "ok"
     /\ ret.to_deg \/ ret.to_rad)
        => LET row == CASE ret.name \in {"q", "wz"} -> 3
                        [] ret.name \in {"ele", "stab"} -> 1
                        [] ret.name = "alpha" -> 3
                        [] OTHER -> 1
               plain ==
                   CASE ret.op = "get_state" ->
                          SliceTo(store_states[row], number_time_steps - 1)
                     [] ret.op = "get_control" ->
                          SliceTo(store_input[row], number_time_steps - 1)
                     [] OTHER -> SliceTo(store_outputs[row], time_step - 1)
           IN  ret.val = IF ret.to_deg THEN rad2deg(plain) ELSE deg2rad(plain)

\* C10: a successful run_step returns the state it has just recorded at
\* index k+1: all of it when nothing was selected at construction, otherwise
\* its components at the selected names, in the order the names were given.
C10_StepReturnsNextState ==
    (ret.op = "run_step" /\ ret.status = "ok")
        => LET recorded == [i \in 1..Len(store_states) |-> store_states[i][time_step + 1]]
               at(n) == CASE n = "u" -> 1 [] n = "w" -> 2 [] n = "q" -> 3 [] OTHER -> 4
           IN  ret.val = IF Len(selected_state_output) = 0 THEN recorded
                         ELSE [j \in 1..Len(selected_state_output) |->
                                  recorded[at(selected_state_output[j])]]

\* A step of an engine built with ("theta", "u") that returned two values.
C10_Witness ==
    /\ ret.op = "run_step"
    /\ ret.status = "ok"
    /\ selected_state_output = <<"theta", "u">>
    /\ time_step = 2
    /\ Len(ret.val) = 2
    /\ ret.val[1] # ret.val[2]

\* C11: the output recorded at every step k taken so far is
\* C_d . x_k + D_d . u_k, with x_k the state recorded at index k (the state
\* before the step) and u_k the applied input recorded at index k.
C11_OutputEquation ==
    \A k \in 1..time_step : \A r \in 1..Len(store_outputs) :
        store_outputs[r][k] =
            (filt_C[r][1] * store_states[1][k] + filt_C[r][2] * store_states[2][k]
             + filt_C[r][3] * store_states[3][k] + filt_C[r][4] * store_states[4][k]
             + filt_D[r][1] * store_input[1][k]) \div 10000

\* Two steps recorded, the second with an output that the state it leads to
\* would not give.
C11_Witness ==
    /\ time_step = 2
    /\ ret.op = "run_step"
    /\ ret.status = "ok"
    /\ store_outputs[2][2] = store_states[4][2]
    /\ store_outputs[2][2] # store_states[4][3]

\* C12: the state recorded at index k+1 by every step k taken so far is
\* A_d . StateHistory[k] + B_d . InputHistory[k], InputHistory[k] being the
\* limited input of that step.
C12_StateEquation ==
    \A k \in 1..time_step : \A r \in 1..Len(store_states) :
        store_states[r][k + 1] =
            (filt_A[r][1] * store_states[1][k] + filt_A[r][2] * store_states[2][k]
             + filt_A[r][3] * store_states[3][k] + filt_A[r][4] * store_states[4][k]
             + filt_B[r][1] * store_input[1][k]) \div 10000

\* A step whose command was limited: the recorded input the state was
\* computed from is not the command.
C12_Witness ==
    /\ time_step = 2
    /\ ret.op = "run_step"
    /\ ret.status = "ok"
    /\ ret.cmd # store_input[1][2]
    /\ store_states[2][3] # store_states[2][2]

\* C13: a successful run_step with step counter k writes InputHistory[k],
\* OutputHistory[k] and StateHistory[k+1] and no other entry: every entry
\* at a lower index keeps its value, and the next step writes at k+1.
C13_AppendInOrder ==
    [][(ret'.op = "run_step" /\ ret'.status = "ok")
          => /\ time_step' = time_step + 1
             /\ \A i \in 1..Len(store_input) : \A j \in 1..Len(store_input[i]) :
                    j # time_step + 1 => store_input'[i][j] = store_input[i][j]
             /\ \A i \in 1..Len(store_outputs) : \A j \in 1..Len(store_outputs[i]) :
                    j # time_step + 1 => store_outputs'[i][j] = store_outputs[i][j]
             /\ \A i \in 1..Len(store_states) : \A j \in 1..Len(store_states[i]) :
                    j # time_step + 2 => store_states'[i][j] = store_states[i][j]
             /\ Len(store_input') = Len(store_input)
             /\ Len(store_states') = Len(store_states)
             /\ Len(store_outputs') = Len(store_outputs)]_vars

\* A second step recorded beside a first whose entries differ from it.
C13_Witness ==
    /\ time_step = 2
    /\ ret.op = "run_step"
    /\ ret.status = "ok"
    /\ store_input[1][1] # store_input[1][2]
    /\ store_states[2][2] # store_states[2][3]
    /\ store_states[2][1] # store_states[2][2]

\* C14: at every step k > 0 the applied input is the command clamped to
\* [previous - rate_limit*dt, previous + rate_limit*dt], previous being
\* InputHistory[k-1], and that result clamped to [-25, 25].
C14_RateThenMagnitude ==
    (ret.op = "run_step" /\ ret.status = "ok" /\ time_step >= 2)
        => LET prev == store_input[1][time_step - 1]
               band == (600 * discretisation_time) \div 100
               rated == IF ret.cmd > prev + band THEN prev + band
                        ELSE IF ret.cmd < prev - band THEN prev - band
                        ELSE ret.cmd
           IN  store_input[1][time_step] =
                   IF rated > 250 THEN 250 ELSE IF rated < -250 THEN -250 ELSE rated

\* A command inside the band after a step recorded at 25: applied as it is.
C14_Witness ==
    /\ time_step = 2
    /\ ret.op = "run_step"
    /\ ret.status = "ok"
    /\ ret.cmd = 245
    /\ store_input[1][1] = 250
    /\ store_input[1][2] = 245

\* C15: at step 0 the applied input is the command clamped to [-25, 25]
\* only, whatever the command.
C15_FirstStepUnrated ==
    (ret.op = "run_step" /\ ret.status = "ok" /\ time_step = 1)
        => store_input[1][1] =
               IF ret.cmd > 250 THEN 250 ELSE IF ret.cmd < -250 THEN -250 ELSE ret.cmd

\* A first command of -1000, recorded as -25.
C15_Witness ==
    /\ time_step = 1
    /\ ret.op = "run_step"
    /\ ret.status = "ok"
    /\ ret.cmd = -10000
    /\ store_input[1][1] = -250

\* C16: the step counter is 0 after construction, stays within 0..N,
\* increases by exactly 1 on each successful run_step and is changed by
\* nothing else: not by a failed step, not by an accessor.
C16_StepCounter ==
    /\ time_step = 0
    /\ [](time_step >= 0 /\ time_step <= number_time_steps)
    /\ [][IF ret'.op = "run_step" /\ ret'.status = "ok"
          THEN time_step' = time_step + 1
          ELSE time_step' = time_step]_vars

\* An accessor called once the counter has reached the horizon.
C16_Witness ==
    /\ time_step = number_time_steps
    /\ number_time_steps = 2
    /\ ret.op = "get_control"
    /\ ret.status = "ok"

\* C17: the current state xt is the state history's entry at the step
\* counter, and the entry at index 0 is the initial state x0.
C17_CurrentState ==
    /\ \A i \in 1..Len(store_states) : xt[i] = store_states[i][time_step + 1]
    /\ \A i \in 1..Len(store_states) : x0[i] = store_states[i][1]
    /\ Len(xt) = Len(store_states)

\* A step refused at the horizon: it recomputed xt1 and left xt alone.
C17_Witness ==
    /\ ret.op = "run_step"
    /\ ret.status = "error"
    /\ time_step = 2
    /\ xt1 # xt
    /\ xt # x0

\* C18: called one after the other on the same engine with the same flags,
\* get_state('wz') and get_state('q') give the same result, and so do
\* get_control('stab') and get_control('ele'); and 'q' and 'ele' do return
\* a sequence.  get_state of 'wx' or 'wy' and get_control of 'rud' or 'dir'
\* fail, as they do for an unknown name.
C18_Aliases ==
    /\ []((ret.op = "get_state" /\ ret.name \in {"wx", "wy"}) => ret.status = "error")
    /\ []((ret.op = "get_control" /\ ret.name \in {"rud", "dir"}) => ret.status = "error")
    /\ []((ret.op = "get_state" /\ ret.name = "q") => ret.status = "ok")
    /\ []((ret.op = "get_control" /\ ret.name = "ele") => ret.status = "ok")
    /\ [][(/\ ret.op = ret'.op
           /\ ret.to_deg = ret'.to_deg
           /\ ret.to_rad = ret'.to_rad
           /\ \/ ret.op = "get_state" /\ {ret.name, ret'.name} = {"q", "wz"}
              \/ ret.op = "get_control" /\ {ret.name, ret'.name} = {"ele", "stab"})
             => (ret'.status = ret.status /\ ret'.val = ret.val)]_vars

\* The pitch rate read under its alias once a step has been recorded.
C18_Witness ==
    /\ time_step >= 1
    /\ number_time_steps = 2
    /\ ret.op = "get_state"
    /\ ret.name = "wz"
    /\ ret.status = "ok"
    /\ ret.val = <<-5>>

====
